---- MODULE Spec2Model ----
(***************************************************************************)
(* Model of the MapReduce word counter (main.go): processFiles wires a     *)
(* pool of file workers (processFile) and a pool of reducers (reducer)     *)
(* through two buffered channels, workQueue and partialResults, and two    *)
(* WaitGroups; the reducers merge into finalResult under finalResultMutex. *)
(***************************************************************************)
EXTENDS Integers, Sequences, FiniteSets, TLC

\* Largest pool size (runtime.NumCPU() or a test's argument) explored.
MaxPool == 2
\* Longest list of file names explored.
MaxFiles == 3
\* Longest chunk handed to the tokenizer on its own.
MaxChunkLen == 3
\* Longest list of files in the runs that follow the reducers to the mutex.
MaxMergeFiles == 2

(***************************************************************************)
(* Runes and the tokenizer of processFile (main.go 141-152).               *)
(***************************************************************************)
\* The runes of the modelled files: letters of both cases, a digit,
\* punctuation and white space.
Letters == {"a", "b", "A", "B"}

\* unicode.IsLetter
IsLetter(r) == r \in Letters

\* strings.ToLower on one rune
ToLowerRune(r) == CASE r = "A" -> "a" [] r = "B" -> "b" [] OTHER -> r

\* strings.ToLower
ToLower(word) == [i \in 1..Len(word) |-> ToLowerRune(word[i])]

\* A faulty separator predicate that splits at white space only.
IsSeparatorSpaceOnly(r) == r = " "

\* The separator predicate handed to strings.FieldsFunc (main.go 141-144).
IsSeparator(r) == ~IsLetter(r)

\* strings.FieldsFunc(s, f): the maximal runs of runes for which f is false,
\* in order; cur is the run being collected (never emitted when empty).
RECURSIVE FieldsFrom(_, _, _)
FieldsFrom(s, i, cur) ==
    IF i > Len(s)
    THEN IF cur = <<>> THEN <<>> ELSE <<cur>>
    ELSE IF IsSeparator(s[i])
         THEN IF cur = <<>>
              THEN FieldsFrom(s, i + 1, <<>>)
              ELSE <<cur>> \o FieldsFrom(s, i + 1, <<>>)
         ELSE FieldsFrom(s, i + 1, Append(cur, s[i]))

FieldsFunc(s) == FieldsFrom(s, 1, <<>>)

\* A Go map[string]int: a function whose domain is the set of keys present.
EmptyMap == <<>>

\* m[k] read as Go reads a missing key: the zero value.
MapGet(m, k) == IF k \in DOMAIN m THEN m[k] ELSE 0

\* A faulty m[k] += v that stores v instead of adding it.
MapAddOverwrite(m, k, v) ==
    [x \in (DOMAIN m) \cup {k} |-> IF x = k THEN v ELSE m[x]]

\* m[k] += v
MapAdd(m, k, v) ==
    [x \in (DOMAIN m) \cup {k} |-> IF x = k THEN MapGet(m, k) + v ELSE m[x]]

\* The sum of two maps, key by key.
MapMerge(m1, m2) ==
    [x \in (DOMAIN m1) \cup (DOMAIN m2) |-> MapGet(m1, x) + MapGet(m2, x)]

\* The loop over the words of one chunk (main.go 146-152): lower-case the
\* word and count it unless it is empty.
RECURSIVE CountWords(_, _, _)
CountWords(res, words, i) ==
    IF i > Len(words)
    THEN res
    ELSE LET word == ToLower(words[i])
         IN  CountWords(IF word # <<>> THEN MapAdd(res, word, 1) ELSE res,
                        words, i + 1)

\* One pass of the read loop on a chunk of n > 0 bytes (main.go 139-153).
CountChunk(res, chunk) == CountWords(res, FieldsFunc(chunk), 1)

(***************************************************************************)
(* The file system the run sees.  A file is the sequence of chunks its     *)
(* reader.Read calls return, and how os.Open and Read behave on it.        *)
(***************************************************************************)
FileIds == {"a.txt", "b.txt", "empty.txt", "missing.txt", "trunc.txt", "bad.txt"}

\* The names of the lists of the main exploration, and those of the
\* exploration with a file that holds no word.
MainFiles == {"a.txt", "b.txt", "missing.txt", "trunc.txt", "bad.txt"}
WordlessFiles == {"a.txt", "empty.txt", "bad.txt"}

\* kind "ok": opens and reads to io.EOF; "noopen": os.Open fails;
\* "readerr": Read fails after errAt chunks; "fault": processing panics.
FileSystem ==
    [f \in FileIds |->
       CASE f = "a.txt" ->
              [kind |-> "ok", errAt |-> 0,
               chunks |-> << <<"A", "!", " ", "a">> >>]
         [] f = "b.txt" ->
              [kind |-> "ok", errAt |-> 0,
               chunks |-> << <<"a", "B">>, <<"a", "1">> >>]
         [] f = "empty.txt" ->
              [kind |-> "ok", errAt |-> 0, chunks |-> << <<"1", " ">> >>]
         [] f = "missing.txt" ->
              [kind |-> "noopen", errAt |-> 0, chunks |-> <<>>]
         [] f = "trunc.txt" ->
              [kind |-> "readerr", errAt |-> 1,
               chunks |-> << <<"b", "-">>, <<"b">> >>]
         [] OTHER ->
              [kind |-> "fault", errAt |-> 0, chunks |-> << <<"a">> >>]]

\* The lists of file names a caller may pass: up to MaxFiles names.  The
\* workers take the names concurrently, so the order of the list decides
\* only the order of the feed; the lists are taken in one order of the
\* names, the faulty ones first.
Rank(f) ==
    CASE f = "bad.txt" -> 1 [] f = "missing.txt" -> 2 [] f = "trunc.txt" -> 3
      [] f = "empty.txt" -> 4 [] f = "a.txt" -> 5 [] OTHER -> 6

RECURSIVE SeqsUpTo(_, _)
SeqsUpTo(S, n) ==
    IF n = 0 THEN {<<>>}
    ELSE LET shorter == SeqsUpTo(S, n - 1)
         IN  shorter \cup {Append(s, x) : s \in {t \in shorter : Len(t) = n - 1}, x \in S}

ListsOver(S) ==
    {s \in SeqsUpTo(S, MaxFiles) :
        \A i \in 1..(Len(s) - 1) : Rank(s[i]) <= Rank(s[i + 1])}

FileLists == ListsOver(MainFiles)
WordlessLists == ListsOver(WordlessFiles)

Procs == 1..MaxPool

VARIABLES
    opc,            \* where main / processFiles stands
    files,          \* flag.Args() / the files argument
    maxWorkers,     \* the maxWorkers argument
    made,           \* TRUE once the channels, WaitGroups, map and mutex exist
    workQueue,      \* buffered content of chan string
    workClosed,     \* close(workQueue) done
    partialResults, \* buffered content of chan map[string]int
    resultsClosed,  \* close(partialResults) done
    workersWG,      \* counter of workersWG
    reducerWG,      \* counter of reducerWG
    started,        \* i of the start loop in progress (goroutines launched)
    fed,            \* number of file names already sent on workQueue
    finalResult,    \* the shared map
    mutex,          \* finalResultMutex: 0 when free, else the holder
    wpc, wfn, wres, wpos, whandle,   \* worker goroutines
    rpc, rres, rtodo, rkey,          \* reducer goroutines
    ret,            \* what processFiles returned: <<map, error>>, or <<>>
    readDone,       \* per file name: reads ended by EOF and by a read error
    taken,          \* per file name: times a worker received it from workQueue
    opened,         \* number of successful os.Open calls
    sent,           \* per file name: partial results sent for it
    recvd,          \* number of partial results received by reducers
    recvTotal,      \* per word: sum of its counts in the partial results received
    tokIn,          \* the chunk handed to the tokenizer on its own
    tokOut,         \* the map the tokenizer built from it
    tokDone         \* TRUE once tokOut is built

ovars == <<opc, files, maxWorkers, made, started, fed, ret>>
chvars == <<workQueue, workClosed, partialResults, resultsClosed>>
wgvars == <<workersWG, reducerWG>>
wvars == <<wpc, wfn, wres, wpos, whandle>>
rvars == <<rpc, rres, rtodo, rkey>>
hvars == <<taken, opened, sent, recvd, recvTotal>>
tokvars == <<tokIn, tokOut, tokDone>>
vars == <<ovars, chvars, wgvars, wvars, rvars, finalResult, mutex, readDone, hvars, tokvars>>


\* Values of a goroutine's local variables outside their scope.
NoFile == ""
NoKey == <<>>
NotReturned == <<>>

InitFrom(lists) ==
    /\ files \in lists
    /\ maxWorkers \in -1..MaxPool
    /\ opc \in {"main", "call"}
    \* main passes runtime.NumCPU(), which is at least 1 (main.go 31, 66)
    /\ opc = "main" => maxWorkers >= 1
    /\ made = FALSE
    /\ workQueue = <<>> /\ workClosed = FALSE
    /\ partialResults = <<>> /\ resultsClosed = FALSE
    /\ workersWG = 0 /\ reducerWG = 0
    /\ started = 0 /\ fed = 0
    /\ finalResult = EmptyMap
    /\ mutex = 0
    /\ wpc = [w \in Procs |-> "unstarted"]
    /\ wfn = [w \in Procs |-> NoFile]
    /\ wres = [w \in Procs |-> EmptyMap]
    /\ wpos = [w \in Procs |-> 0]
    /\ whandle = [w \in Procs |-> FALSE]
    /\ rpc = [r \in Procs |-> "unstarted"]
    /\ rres = [r \in Procs |-> EmptyMap]
    /\ rtodo = [r \in Procs |-> {}]
    /\ rkey = [r \in Procs |-> NoKey]
    /\ ret = NotReturned
    /\ readDone = [f \in FileIds |-> 0]
    /\ taken = [f \in FileIds |-> 0]
    /\ opened = 0
    /\ sent = [f \in FileIds |-> 0]
    /\ recvd = 0
    /\ recvTotal = EmptyMap
    /\ tokIn = <<>> /\ tokOut = EmptyMap /\ tokDone = TRUE

\* A call of main or of processFiles on a list of the main exploration.
Init == InitFrom(FileLists)

\* The same on a list that may name a file without words.
InitWordless == InitFrom(WordlessLists)

\* The runes a chunk is made of: the letters, a digit, white space and
\* punctuation.
Runes == Letters \cup {"1", " ", "!", "-"}

\* The chunks handed to the tokenizer on its own.
Chunks == SeqsUpTo(Runes, MaxChunkLen)

\* The tokenizer alone: no pipeline runs, a chunk waits to be tokenized.
TokInit ==
    /\ files = <<>> /\ maxWorkers = 1 /\ opc = "rejected"
    /\ made = FALSE
    /\ workQueue = <<>> /\ workClosed = FALSE
    /\ partialResults = <<>> /\ resultsClosed = FALSE
    /\ workersWG = 0 /\ reducerWG = 0
    /\ started = 0 /\ fed = 0
    /\ finalResult = EmptyMap
    /\ mutex = 0
    /\ wpc = [w \in Procs |-> "unstarted"]
    /\ wfn = [w \in Procs |-> NoFile]
    /\ wres = [w \in Procs |-> EmptyMap]
    /\ wpos = [w \in Procs |-> 0]
    /\ whandle = [w \in Procs |-> FALSE]
    /\ rpc = [r \in Procs |-> "unstarted"]
    /\ rres = [r \in Procs |-> EmptyMap]
    /\ rtodo = [r \in Procs |-> {}]
    /\ rkey = [r \in Procs |-> NoKey]
    /\ ret = NotReturned
    /\ readDone = [f \in FileIds |-> 0]
    /\ taken = [f \in FileIds |-> 0]
    /\ opened = 0
    /\ sent = [f \in FileIds |-> 0]
    /\ recvd = 0
    /\ recvTotal = EmptyMap
    /\ tokIn \in Chunks /\ tokOut = EmptyMap /\ tokDone = FALSE

(***************************************************************************)
(* main and processFiles.                                                  *)
(***************************************************************************)
\* A faulty main that calls processFiles without looking at its arguments.
MainCheckArgsNoCheck ==
    /\ opc = "main"
    /\ opc' = "call"
    /\ UNCHANGED <<files, maxWorkers, made, started, fed, ret>>
    /\ UNCHANGED <<chvars, wgvars, wvars, rvars, finalResult, mutex, readDone, hvars, tokvars>>

\* main.go 61-66: without file arguments main logs an error and returns;
\* otherwise it calls processFiles(flag.Args(), maxWorkers).
MainCheckArgs ==
    /\ opc = "main"
    /\ opc' = IF Len(files) = 0 THEN "rejected" ELSE "call"
    /\ UNCHANGED <<files, maxWorkers, made, started, fed, ret>>
    /\ UNCHANGED <<chvars, wgvars, wvars, rvars, finalResult, mutex, readDone, hvars, tokvars>>

\* main.go 85-90: the WaitGroups, the two channels of capacity maxWorkers,
\* the map and the mutex.  make(chan T, n) panics for n < 0.
Setup ==
    /\ opc = "call"
    /\ IF maxWorkers < 0
       THEN opc' = "panicked" /\ made' = made
       ELSE opc' = "startReducers" /\ made' = TRUE
    /\ UNCHANGED <<files, maxWorkers, started, fed, ret>>
    /\ UNCHANGED <<chvars, wgvars, wvars, rvars, finalResult, mutex, readDone, hvars, tokvars>>

\* main.go 93-95 with 186-187: one pass of the loop calls reducer, which
\* does wg.Add(1) and launches the goroutine; the loop ends at maxWorkers.
StartReducer ==
    /\ opc = "startReducers"
    /\ IF started < maxWorkers
       THEN /\ reducerWG' = reducerWG + 1
            /\ rpc' = [rpc EXCEPT ![started + 1] = "recv"]
            /\ started' = started + 1
            /\ opc' = opc
       ELSE /\ opc' = "startWorkers"
            /\ started' = 0
            /\ UNCHANGED <<reducerWG, rpc>>
    /\ UNCHANGED <<files, maxWorkers, made, fed, ret, workersWG>>
    /\ UNCHANGED <<chvars, wvars, rres, rtodo, rkey, finalResult, mutex, readDone, hvars, tokvars>>

\* A faulty start loop that launches one worker only.
StartWorkerOnce ==
    /\ opc = "startWorkers"
    /\ IF started < maxWorkers /\ started < 1
       THEN /\ workersWG' = workersWG + 1
            /\ wpc' = [wpc EXCEPT ![started + 1] = "recv"]
            /\ started' = started + 1
            /\ opc' = opc
       ELSE /\ opc' = "feed"
            /\ started' = started
            /\ UNCHANGED <<workersWG, wpc>>
    /\ UNCHANGED <<files, maxWorkers, made, fed, ret, reducerWG>>
    /\ UNCHANGED <<chvars, wfn, wres, wpos, whandle, rvars, finalResult, mutex, readDone, hvars, tokvars>>

\* main.go 97-99 with 116-117: one pass of the loop calls processFile, which
\* does wg.Add(1) and launches the goroutine.
StartWorker ==
    /\ opc = "startWorkers"
    /\ IF started < maxWorkers
       THEN /\ workersWG' = workersWG + 1
            /\ wpc' = [wpc EXCEPT ![started + 1] = "recv"]
            /\ started' = started + 1
            /\ opc' = opc
       ELSE /\ opc' = "feed"
            /\ started' = started
            /\ UNCHANGED <<workersWG, wpc>>
    /\ UNCHANGED <<files, maxWorkers, made, fed, ret, reducerWG>>
    /\ UNCHANGED <<chvars, wfn, wres, wpos, whandle, rvars, finalResult, mutex, readDone, hvars, tokvars>>

\* A faulty send that goes through when the buffer is full.
CanSendAlways(queue) == TRUE

\* A send on a buffered channel goes through when the buffer has room.  A
\* channel of capacity 0 is made only when maxWorkers = 0, and then no
\* receiver exists, so its sends never go through.
CanSend(queue) == Len(queue) < maxWorkers

\* main.go 102-104: workQueue <- fn, blocking while the buffer is full.
Feed ==
    /\ opc = "feed"
    /\ fed < Len(files)
    /\ CanSend(workQueue)
    /\ workQueue' = Append(workQueue, files[fed + 1])
    /\ fed' = fed + 1
    /\ UNCHANGED <<opc, files, maxWorkers, made, started, ret>>
    /\ UNCHANGED <<workClosed, partialResults, resultsClosed>>
    /\ UNCHANGED <<wgvars, wvars, rvars, finalResult, mutex, readDone, hvars, tokvars>>

\* main.go 105: close(workQueue) once the range over files is exhausted.
CloseWorkQueue ==
    /\ opc = "feed"
    /\ fed = Len(files)
    /\ workClosed' = TRUE
    /\ opc' = "waitWorkers"
    /\ UNCHANGED <<files, maxWorkers, made, started, fed, ret>>
    /\ UNCHANGED <<workQueue, partialResults, resultsClosed>>
    /\ UNCHANGED <<wgvars, wvars, rvars, finalResult, mutex, readDone, hvars, tokvars>>

\* A faulty join #1 that does not wait for the workers.
WaitWorkersNoJoin ==
    /\ opc = "waitWorkers"
    /\ opc' = "closeResults"
    /\ UNCHANGED <<files, maxWorkers, made, started, fed, ret>>
    /\ UNCHANGED <<chvars, wgvars, wvars, rvars, finalResult, mutex, readDone, hvars, tokvars>>

\* main.go 106: workersWG.Wait() returns when the counter is zero.
WaitWorkers ==
    /\ opc = "waitWorkers"
    /\ workersWG = 0
    /\ opc' = "closeResults"
    /\ UNCHANGED <<files, maxWorkers, made, started, fed, ret>>
    /\ UNCHANGED <<chvars, wgvars, wvars, rvars, finalResult, mutex, readDone, hvars, tokvars>>

\* main.go 107: close(partialResults).
CloseResults ==
    /\ opc = "closeResults"
    /\ resultsClosed' = TRUE
    /\ opc' = "waitReducers"
    /\ UNCHANGED <<files, maxWorkers, made, started, fed, ret>>
    /\ UNCHANGED <<workQueue, workClosed, partialResults>>
    /\ UNCHANGED <<wgvars, wvars, rvars, finalResult, mutex, readDone, hvars, tokvars>>

\* A faulty join #2 that does not wait for the reducers.
WaitReducersNoJoin ==
    /\ opc = "waitReducers"
    /\ opc' = "return"
    /\ UNCHANGED <<files, maxWorkers, made, started, fed, ret>>
    /\ UNCHANGED <<chvars, wgvars, wvars, rvars, finalResult, mutex, readDone, hvars, tokvars>>

\* main.go 108: reducerWG.Wait() returns when the counter is zero.
WaitReducers ==
    /\ opc = "waitReducers"
    /\ reducerWG = 0
    /\ opc' = "return"
    /\ UNCHANGED <<files, maxWorkers, made, started, fed, ret>>
    /\ UNCHANGED <<chvars, wgvars, wvars, rvars, finalResult, mutex, readDone, hvars, tokvars>>

\* main.go 110: return finalResult, nil.
Return ==
    /\ opc = "return"
    /\ ret' = <<finalResult, "nil">>
    /\ opc' = "done"
    /\ UNCHANGED <<files, maxWorkers, made, started, fed>>
    /\ UNCHANGED <<chvars, wgvars, wvars, rvars, finalResult, mutex, readDone, hvars, tokvars>>

(***************************************************************************)
(* The worker goroutine of processFile (main.go 117-170).                  *)
(***************************************************************************)
\* The goroutine ends: its locals go out of scope, the deferred file.Close
\* calls (132), the deferred recover (119-123) and wg.Done (118) run.
WorkerExit(w) ==
    /\ wpc' = [wpc EXCEPT ![w] = "exited"]
    /\ wfn' = [wfn EXCEPT ![w] = NoFile]
    /\ wres' = [wres EXCEPT ![w] = EmptyMap]
    /\ wpos' = [wpos EXCEPT ![w] = 0]
    /\ whandle' = [whandle EXCEPT ![w] = FALSE]
    /\ workersWG' = workersWG - 1

\* A panic in the goroutine: it unwinds out of the range loop to the
\* deferred functions, recover (120) stops it there, and the goroutine ends.
WorkerPanic(w) == WorkerExit(w)

\* Back to the head of the range loop (125) for the next file name.
WorkerNext(w) ==
    /\ wpc' = [wpc EXCEPT ![w] = "recv"]
    /\ wfn' = [wfn EXCEPT ![w] = NoFile]
    /\ wres' = [wres EXCEPT ![w] = EmptyMap]
    /\ wpos' = [wpos EXCEPT ![w] = 0]

\* A faulty loop head that returns from the goroutine when os.Open fails.
WRecvReturnOnOpenError(w) ==
    /\ wpc[w] = "recv"
    /\ IF workQueue # <<>>
       THEN /\ workQueue' = Tail(workQueue)
            /\ taken' = [taken EXCEPT ![Head(workQueue)] = @ + 1]
            /\ opened' = IF FileSystem[Head(workQueue)].kind = "noopen"
                         THEN opened ELSE opened + 1
            /\ IF FileSystem[Head(workQueue)].kind = "noopen"
               THEN WorkerExit(w)
               ELSE /\ wfn' = [wfn EXCEPT ![w] = Head(workQueue)]
                    /\ wres' = [wres EXCEPT ![w] = EmptyMap]
                    /\ whandle' = [whandle EXCEPT ![w] = TRUE]
                    /\ wpos' = [wpos EXCEPT ![w] = 0]
                    /\ wpc' = [wpc EXCEPT ![w] = "read"]
                    /\ UNCHANGED workersWG
       ELSE /\ workClosed
            /\ WorkerExit(w)
            /\ UNCHANGED <<workQueue, taken, opened>>
    /\ UNCHANGED <<ovars, workClosed, partialResults, resultsClosed, reducerWG>>
    /\ UNCHANGED <<rvars, finalResult, mutex, readDone, sent, recvd, recvTotal, tokvars>>

\* main.go 125-135: for fn := range workQueue takes the oldest file name,
\* blocks on an open empty channel and ends the loop on a closed empty one.
\* With a name in hand: a fresh res, then os.Open; on failure a warning and
\* continue, otherwise the read loop is entered with the handle open.
WRecv(w) ==
    /\ wpc[w] = "recv"
    /\ IF workQueue # <<>>
       THEN /\ workQueue' = Tail(workQueue)
            /\ taken' = [taken EXCEPT ![Head(workQueue)] = @ + 1]
            /\ opened' = IF FileSystem[Head(workQueue)].kind = "noopen"
                         THEN opened ELSE opened + 1
            /\ IF FileSystem[Head(workQueue)].kind = "noopen"
               THEN UNCHANGED <<wpc, wfn, wres, wpos, whandle>>
               ELSE /\ wfn' = [wfn EXCEPT ![w] = Head(workQueue)]
                    /\ wres' = [wres EXCEPT ![w] = EmptyMap]
                    /\ whandle' = [whandle EXCEPT ![w] = TRUE]
                    /\ wpos' = [wpos EXCEPT ![w] = 0]
                    /\ wpc' = [wpc EXCEPT ![w] = "read"]
            /\ UNCHANGED workersWG
       ELSE /\ workClosed
            /\ WorkerExit(w)
            /\ UNCHANGED <<workQueue, taken, opened>>
    /\ UNCHANGED <<ovars, workClosed, partialResults, resultsClosed, reducerWG>>
    /\ UNCHANGED <<rvars, finalResult, mutex, readDone, sent, recvd, recvTotal, tokvars>>

\* The chunks 1..n of a file as one string.
RECURSIVE Concat(_, _)
Concat(chunks, n) == IF n = 0 THEN <<>> ELSE Concat(chunks, n - 1) \o chunks[n]

\* A faulty read loop that splits the bytes read so far as one string, so
\* that a word cut by a chunk boundary is put together again.
WReadStitched(w) ==
    /\ wpc[w] = "read"
    /\ LET f == FileSystem[wfn[w]]
       IN  IF f.kind = "fault"
           THEN WorkerPanic(w) /\ UNCHANGED readDone
           ELSE IF (f.kind = "readerr" /\ wpos[w] = f.errAt) \/ wpos[w] = Len(f.chunks)
           THEN /\ readDone' = [readDone EXCEPT ![wfn[w]] = @ + 1]
                /\ whandle' = [whandle EXCEPT ![w] = FALSE]
                /\ wpc' = [wpc EXCEPT ![w] = "send"]
                /\ UNCHANGED <<wfn, wres, wpos, workersWG>>
           ELSE /\ wres' = [wres EXCEPT ![w] =
                               CountChunk(EmptyMap, Concat(f.chunks, wpos[w] + 1))]
                /\ wpos' = [wpos EXCEPT ![w] = @ + 1]
                /\ UNCHANGED <<wpc, wfn, whandle, workersWG, readDone>>
    /\ UNCHANGED <<ovars, chvars, reducerWG, rvars, finalResult, mutex, hvars, tokvars>>

\* A faulty read loop with no file.Close() after it.
WReadNoClose(w) ==
    /\ wpc[w] = "read"
    /\ LET f == FileSystem[wfn[w]]
       IN  IF f.kind = "fault"
           THEN WorkerPanic(w) /\ UNCHANGED readDone
           ELSE IF (f.kind = "readerr" /\ wpos[w] = f.errAt) \/ wpos[w] = Len(f.chunks)
           THEN /\ readDone' = [readDone EXCEPT ![wfn[w]] = @ + 1]
                /\ wpc' = [wpc EXCEPT ![w] = "send"]
                /\ UNCHANGED <<wfn, wres, wpos, whandle, workersWG>>
           ELSE /\ wres' = [wres EXCEPT ![w] = CountChunk(@, f.chunks[wpos[w] + 1])]
                /\ wpos' = [wpos EXCEPT ![w] = @ + 1]
                /\ UNCHANGED <<wpc, wfn, whandle, workersWG, readDone>>
    /\ UNCHANGED <<ovars, chvars, reducerWG, rvars, finalResult, mutex, hvars, tokvars>>

\* A faulty read loop that returns from the goroutine on a read error.
WReadReturnOnError(w) ==
    /\ wpc[w] = "read"
    /\ LET f == FileSystem[wfn[w]]
       IN  IF f.kind = "fault"
           THEN WorkerPanic(w) /\ UNCHANGED readDone
           ELSE IF f.kind = "readerr" /\ wpos[w] = f.errAt
           THEN /\ readDone' = [readDone EXCEPT ![wfn[w]] = @ + 1]
                /\ WorkerExit(w)
           ELSE IF wpos[w] = Len(f.chunks)
           THEN /\ readDone' = [readDone EXCEPT ![wfn[w]] = @ + 1]
                /\ whandle' = [whandle EXCEPT ![w] = FALSE]
                /\ wpc' = [wpc EXCEPT ![w] = "send"]
                /\ UNCHANGED <<wfn, wres, wpos, workersWG>>
           ELSE /\ wres' = [wres EXCEPT ![w] = CountChunk(@, f.chunks[wpos[w] + 1])]
                /\ wpos' = [wpos EXCEPT ![w] = @ + 1]
                /\ UNCHANGED <<wpc, wfn, whandle, workersWG, readDone>>
    /\ UNCHANGED <<ovars, chvars, reducerWG, rvars, finalResult, mutex, hvars, tokvars>>

\* main.go 137-165: one pass of the read loop.  reader.Read returns the next
\* chunk, which is split and counted into res, or io.EOF or another error,
\* either of which breaks the loop, and file.Close() follows the loop.  A
\* runtime fault while the file is processed panics.
WRead(w) ==
    /\ wpc[w] = "read"
    /\ LET f == FileSystem[wfn[w]]
       IN  IF f.kind = "fault"
           THEN WorkerPanic(w) /\ UNCHANGED readDone
           ELSE IF (f.kind = "readerr" /\ wpos[w] = f.errAt) \/ wpos[w] = Len(f.chunks)
           THEN /\ readDone' = [readDone EXCEPT ![wfn[w]] = @ + 1]
                /\ whandle' = [whandle EXCEPT ![w] = FALSE]
                /\ wpc' = [wpc EXCEPT ![w] = "send"]
                /\ UNCHANGED <<wfn, wres, wpos, workersWG>>
           ELSE /\ wres' = [wres EXCEPT ![w] = CountChunk(@, f.chunks[wpos[w] + 1])]
                /\ wpos' = [wpos EXCEPT ![w] = @ + 1]
                /\ UNCHANGED <<wpc, wfn, whandle, workersWG, readDone, hvars, tokvars>>
    /\ UNCHANGED <<ovars, chvars, reducerWG, rvars, finalResult, mutex, hvars, tokvars>>

\* A faulty worker that sends nothing for a file without words.
WSendSkipEmpty(w) ==
    /\ wpc[w] = "send"
    /\ IF resultsClosed
       THEN WorkerPanic(w) /\ UNCHANGED <<partialResults, sent>>
       ELSE IF wres[w] = EmptyMap
       THEN WorkerNext(w) /\ UNCHANGED <<partialResults, sent, whandle, workersWG>>
       ELSE /\ CanSend(partialResults)
            /\ partialResults' = Append(partialResults, wres[w])
            /\ sent' = [sent EXCEPT ![wfn[w]] = @ + 1]
            /\ WorkerNext(w)
            /\ UNCHANGED <<whandle, workersWG>>
    /\ UNCHANGED <<ovars, workQueue, workClosed, resultsClosed, reducerWG>>
    /\ UNCHANGED <<rvars, finalResult, mutex, readDone, taken, opened, recvd, recvTotal, tokvars>>

\* main.go 167-169: result <- res, blocking while the buffer is full; a send
\* on a closed channel panics.
WSend(w) ==
    /\ wpc[w] = "send"
    /\ IF resultsClosed
       THEN WorkerPanic(w) /\ UNCHANGED <<partialResults, sent>>
       ELSE /\ CanSend(partialResults)
            /\ partialResults' = Append(partialResults, wres[w])
            /\ sent' = [sent EXCEPT ![wfn[w]] = @ + 1]
            /\ WorkerNext(w)
            /\ UNCHANGED <<whandle, workersWG>>
    /\ UNCHANGED <<ovars, workQueue, workClosed, resultsClosed, reducerWG>>
    /\ UNCHANGED <<rvars, finalResult, mutex, readDone, taken, opened, recvd, recvTotal, tokvars>>

(***************************************************************************)
(* The reducer goroutine (main.go 187-196).                                *)
(***************************************************************************)
\* A faulty reducer that ends as soon as it finds the channel empty.
RRecvExitOnEmpty(r) ==
    /\ rpc[r] = "recv"
    /\ IF partialResults # <<>>
       THEN /\ rres' = [rres EXCEPT ![r] = Head(partialResults)]
            /\ rtodo' = [rtodo EXCEPT ![r] = DOMAIN Head(partialResults)]
            /\ partialResults' = Tail(partialResults)
            /\ rpc' = [rpc EXCEPT ![r] =
                          IF DOMAIN Head(partialResults) = {} THEN "recv" ELSE "lock"]
            /\ recvd' = recvd + 1
            /\ recvTotal' = MapMerge(recvTotal, Head(partialResults))
            /\ UNCHANGED reducerWG
       ELSE /\ rpc' = [rpc EXCEPT ![r] = "exited"]
            /\ reducerWG' = reducerWG - 1
            /\ UNCHANGED <<rres, rtodo, partialResults, recvd, recvTotal>>
    /\ UNCHANGED <<ovars, workQueue, workClosed, resultsClosed, workersWG>>
    /\ UNCHANGED <<wvars, rkey, finalResult, mutex, readDone, taken, opened, sent, tokvars>>

\* main.go 189: for res := range in takes the oldest partial result, blocks
\* on an open empty channel and ends the goroutine (wg.Done) on a closed
\* empty one.  An empty map has no pair to range over.
RRecv(r) ==
    /\ rpc[r] = "recv"
    /\ IF partialResults # <<>>
       THEN /\ rres' = [rres EXCEPT ![r] = Head(partialResults)]
            /\ rtodo' = [rtodo EXCEPT ![r] = DOMAIN Head(partialResults)]
            /\ partialResults' = Tail(partialResults)
            /\ rpc' = [rpc EXCEPT ![r] =
                          IF DOMAIN Head(partialResults) = {} THEN "recv" ELSE "lock"]
            /\ recvd' = recvd + 1
            /\ recvTotal' = MapMerge(recvTotal, Head(partialResults))
            /\ UNCHANGED reducerWG
       ELSE /\ resultsClosed
            /\ rpc' = [rpc EXCEPT ![r] = "exited"]
            /\ reducerWG' = reducerWG - 1
            /\ UNCHANGED <<rres, rtodo, partialResults, recvd, recvTotal>>
    /\ UNCHANGED <<ovars, workQueue, workClosed, resultsClosed, workersWG>>
    /\ UNCHANGED <<wvars, rkey, finalResult, mutex, readDone, taken, opened, sent, tokvars>>

\* A faulty reducer that enters the critical section without the mutex.
RLockNoWait(r) ==
    /\ rpc[r] = "lock"
    /\ \E k \in rtodo[r] : rkey' = [rkey EXCEPT ![r] = k]
    /\ mutex' = r
    /\ rpc' = [rpc EXCEPT ![r] = "add"]
    /\ UNCHANGED <<ovars, chvars, wgvars, wvars, rres, rtodo, finalResult, readDone, hvars, tokvars>>

\* main.go 190-191: the range over res yields a pair not yet visited, in no
\* fixed order, and mutex.Lock() waits until the mutex is free.
RLock(r) ==
    /\ rpc[r] = "lock"
    /\ mutex = 0
    /\ \E k \in rtodo[r] : rkey' = [rkey EXCEPT ![r] = k]
    /\ mutex' = r
    /\ rpc' = [rpc EXCEPT ![r] = "add"]
    /\ UNCHANGED <<ovars, chvars, wgvars, wvars, rres, rtodo, finalResult, readDone, hvars, tokvars>>

\* A faulty reducer that adds the count of a pair twice.
RAddTwice(r) ==
    /\ rpc[r] = "add"
    /\ finalResult' = MapAdd(finalResult, rkey[r], 2 * rres[r][rkey[r]])
    /\ mutex' = 0
    /\ LET rest == rtodo[r] \ {rkey[r]}
       IN  /\ rtodo' = [rtodo EXCEPT ![r] = rest]
           /\ rpc' = [rpc EXCEPT ![r] = IF rest = {} THEN "recv" ELSE "lock"]
           /\ rres' = [rres EXCEPT ![r] = IF rest = {} THEN EmptyMap ELSE @]
    /\ rkey' = [rkey EXCEPT ![r] = NoKey]
    /\ UNCHANGED <<ovars, chvars, wgvars, wvars, readDone, hvars, tokvars>>

\* A faulty reducer that keeps the mutex after the last pair of an item.
RAddKeepLock(r) ==
    /\ rpc[r] = "add"
    /\ finalResult' = MapAdd(finalResult, rkey[r], rres[r][rkey[r]])
    /\ LET rest == rtodo[r] \ {rkey[r]}
       IN  /\ mutex' = IF rest = {} THEN mutex ELSE 0
           /\ rtodo' = [rtodo EXCEPT ![r] = rest]
           /\ rpc' = [rpc EXCEPT ![r] = IF rest = {} THEN "recv" ELSE "lock"]
           /\ rres' = [rres EXCEPT ![r] = IF rest = {} THEN EmptyMap ELSE @]
    /\ rkey' = [rkey EXCEPT ![r] = NoKey]
    /\ UNCHANGED <<ovars, chvars, wgvars, wvars, readDone, hvars, tokvars>>

\* A faulty reducer that stores the count of a pair in place of adding it.
RAddAssign(r) ==
    /\ rpc[r] = "add"
    /\ finalResult' = MapAddOverwrite(finalResult, rkey[r], rres[r][rkey[r]])
    /\ mutex' = 0
    /\ LET rest == rtodo[r] \ {rkey[r]}
       IN  /\ rtodo' = [rtodo EXCEPT ![r] = rest]
           /\ rpc' = [rpc EXCEPT ![r] = IF rest = {} THEN "recv" ELSE "lock"]
           /\ rres' = [rres EXCEPT ![r] = IF rest = {} THEN EmptyMap ELSE @]
    /\ rkey' = [rkey EXCEPT ![r] = NoKey]
    /\ UNCHANGED <<ovars, chvars, wgvars, wvars, readDone, hvars, tokvars>>

\* main.go 192-195: finResult[k] += v and mutex.Unlock(), then the next
\* pair, or the next partial result when every pair was visited.
RAdd(r) ==
    /\ rpc[r] = "add"
    /\ finalResult' = MapAdd(finalResult, rkey[r], rres[r][rkey[r]])
    /\ mutex' = 0
    /\ LET rest == rtodo[r] \ {rkey[r]}
       IN  /\ rtodo' = [rtodo EXCEPT ![r] = rest]
           /\ rpc' = [rpc EXCEPT ![r] = IF rest = {} THEN "recv" ELSE "lock"]
           /\ rres' = [rres EXCEPT ![r] = IF rest = {} THEN EmptyMap ELSE @]
    /\ rkey' = [rkey EXCEPT ![r] = NoKey]
    /\ UNCHANGED <<ovars, chvars, wgvars, wvars, readDone, hvars, tokvars>>

(***************************************************************************)
(* The tokenizer on its own: one chunk split and counted into a fresh map. *)
(***************************************************************************)
Tokenize ==
    /\ ~tokDone
    /\ tokOut' = CountChunk(EmptyMap, tokIn)
    /\ tokDone' = TRUE
    /\ UNCHANGED <<tokIn, ovars, chvars, wgvars, wvars, rvars, finalResult, mutex,
                   readDone, hvars>>

Next ==
    \/ MainCheckArgs
    \/ Setup
    \/ StartReducer
    \/ StartWorker
    \/ Feed
    \/ CloseWorkQueue
    \/ WaitWorkers
    \/ CloseResults
    \/ WaitReducers
    \/ Return
    \/ \E w \in Procs : WRecv(w)
    \/ \E w \in Procs : WRead(w)
    \/ \E w \in Procs : WSend(w)
    \/ \E r \in Procs : RRecv(r)
    \/ \E r \in Procs : RLock(r)
    \/ \E r \in Procs : RAdd(r)

Spec == Init /\ [][Next]_vars

\* The pipeline over the lists that may name a file without words.
SpecWordless == InitWordless /\ [][Next]_vars

\* The pipeline over the lists of a file that panics, a file whose read
\* fails and a file of two chunks read to its end.
FlowFiles == {"bad.txt", "trunc.txt", "b.txt"}
InitFlow == InitFrom(ListsOver(FlowFiles))
SpecFlow == InitFlow /\ [][Next]_vars

\* The tokenizer applied to every chunk of up to MaxChunkLen runes.
TokSpec == TokInit /\ [][Tokenize]_vars

\* The Go scheduler runs every goroutine that can take a step.
FairSpec ==
    /\ Spec
    /\ WF_vars(MainCheckArgs \/ Setup \/ StartReducer \/ StartWorker \/ Feed
               \/ CloseWorkQueue \/ WaitWorkers \/ CloseResults \/ WaitReducers \/ Return)
    /\ \A w \in Procs : WF_vars(WRecv(w) \/ WRead(w) \/ WSend(w))
    /\ \A r \in Procs : WF_vars(RRecv(r) \/ RAdd(r))
    /\ \A r \in Procs : SF_vars(RLock(r))

\* The file whose partial result has two pairs, so that a reducer takes the
\* mutex twice for one item.
MergeFiles == {"b.txt"}
MergeLists == {l \in ListsOver(MergeFiles) : Len(l) <= MaxMergeFiles}
InitMerge == InitFrom(MergeLists)

\* The pipeline over the lists of MergeLists, every goroutine that can take
\* a step being run; sync.Mutex hands the mutex to a goroutine that keeps
\* waiting for it (its starvation mode), hence the strong fairness of RLock.
FairMergeSpec ==
    /\ InitMerge /\ [][Next]_vars
    /\ WF_vars(MainCheckArgs \/ Setup \/ StartReducer \/ StartWorker \/ Feed
               \/ CloseWorkQueue \/ WaitWorkers \/ CloseResults \/ WaitReducers \/ Return)
    /\ \A w \in Procs : WF_vars(WRecv(w) \/ WRead(w) \/ WSend(w))
    /\ \A r \in Procs : WF_vars(RRecv(r) \/ RAdd(r))
    /\ \A r \in Procs : SF_vars(RLock(r))

(***************************************************************************)
(* Reference quantities the properties are stated with.                    *)
(***************************************************************************)
Kind(f) == FileSystem[f].kind

\* Number of chunks a worker's read loop gets from f before it breaks.
ChunksRead(f) ==
    IF Kind(f) = "readerr" THEN FileSystem[f].errAt ELSE Len(FileSystem[f].chunks)

\* The token stream of the first n chunks of f: the lower-cased letter runs
\* of each chunk, chunk after chunk.
RECURSIVE TokenStream(_, _)
TokenStream(f, n) ==
    IF n = 0 THEN <<>>
    ELSE LET fields == FieldsFunc(FileSystem[f].chunks[n])
         IN  TokenStream(f, n - 1) \o [i \in 1..Len(fields) |-> ToLower(fields[i])]

\* Every word some file holds.
AllWords ==
    UNION {{TokenStream(f, Len(FileSystem[f].chunks))[i] :
               i \in 1..Len(TokenStream(f, Len(FileSystem[f].chunks)))} : f \in FileIds}

\* Occurrences of every word among the tokens of the first n chunks of
\* every file, computed once.
OccurrenceTable ==
    [f \in FileIds |->
        [n \in 0..Len(FileSystem[f].chunks) |->
            [w \in AllWords |->
                LET ts == TokenStream(f, n)
                IN  Cardinality({i \in 1..Len(ts) : ts[i] = w})]]]

\* Occurrences of w among the tokens of the first n chunks of f.
Occurrences(f, n, w) == IF w \in AllWords THEN OccurrenceTable[f][n][w] ELSE 0

\* Sum of g[x] over the finite set S.
RECURSIVE SumOver(_, _)
SumOver(g, S) ==
    IF S = {} THEN 0
    ELSE LET x == CHOOSE y \in S : TRUE IN g[x] + SumOver(g, S \ {x})

\* processFiles has returned.
Returned == ret # NotReturned

\* Occurrences of w in the files of F, each counted once per completed read
\* loop, over the chunks the loop got.
ReadTotal(F, w) ==
    SumOver([f \in F |-> readDone[f] * Occurrences(f, ChunksRead(f), w)], F)

\* Occurrences of w in one sequential pass over the whole list.
ListTotal(w) ==
    SumOver([i \in 1..Len(files) |->
                Occurrences(files[i], ChunksRead(files[i]), w)], 1..Len(files))

\* The map a single sequential pass over the list would build.
SequentialResult ==
    [w \in {x \in AllWords : ListTotal(x) > 0} |-> ListTotal(w)]

(***************************************************************************)
(* Properties.                                                             *)
(***************************************************************************)
\* The words a comparison of the returned map has to look at.
WordsOf(m) == AllWords \cup DOMAIN m

\* C1, as stated: when processFiles has returned, the count of every word
\* is the sum of its occurrences over the files that were opened and fully
\* read, and over nothing else.
C1_AsStated ==
    Returned =>
        \A w \in WordsOf(ret[1]) :
            MapGet(ret[1], w) = ReadTotal({f \in FileIds : Kind(f) = "ok"}, w)

\* C1, amended: when processFiles has returned, the count of every word is
\* the sum of its occurrences over the files that were opened and fully
\* read, plus, for every file whose read failed mid-stream, its occurrences
\* in the chunks read before the failure.
C1_Conservation ==
    Returned =>
        \A w \in WordsOf(ret[1]) : MapGet(ret[1], w) = ReadTotal(FileIds, w)

\* Two workers and two reducers returned counts of a fully read file and of
\* a file cut short by a read error.
C1_Witness ==
    /\ Returned
    /\ maxWorkers = 2
    /\ readDone["a.txt"] >= 1
    /\ readDone["trunc.txt"] >= 1
    /\ MapGet(ret[1], <<"a">>) >= 2
    /\ MapGet(ret[1], <<"b">>) >= 1

\* C2: once processFiles is called with a pool size of at least 1, it
\* returns, whatever the file list.
C2_Termination == (opc = "call" /\ maxWorkers >= 1) ~> (opc = "done")

\* C3: partialResults is closed only after every worker has ended, so no
\* worker is reading a file or about to send once it is closed, and no
\* reducer has ended while a worker still holds a partial count.
C3_TwoPhaseJoin ==
    /\ resultsClosed =>
          /\ workersWG = 0
          /\ \A w \in Procs : wpc[w] \in {"unstarted", "exited"}
    /\ (\E r \in Procs : rpc[r] = "exited") =>
          \A w \in Procs : wpc[w] \notin {"read", "send"}

\* partialResults is closed after workers delivered counts that were merged,
\* and a reducer has ended.
C3_Witness ==
    /\ resultsClosed
    /\ maxWorkers = 2
    /\ \E r \in Procs : rpc[r] = "exited"
    /\ \A w \in 1..maxWorkers : wpc[w] = "exited"
    /\ finalResult # EmptyMap

C5_NeverHangs ==
    /\ (maxWorkers >= 1 /\ opc \notin {"done", "rejected"}) => ENABLED Next
    /\ Returned => ret[2] = "nil"

\* C6: a worker that takes a name os.Open fails on sends nothing, stays
\* alive at the head of its loop, and the file adds nothing to the result:
\* the returned error is nil and the counts are those of the opened files.
C6_OpenFailureIsolation ==
    /\ [][(/\ workQueue # <<>>
           /\ Kind(Head(workQueue)) = "noopen"
           /\ workQueue' = Tail(workQueue))
          => (/\ wpc' = wpc
              /\ workersWG' = workersWG
              /\ partialResults' = partialResults
              /\ readDone' = readDone)]_vars
    /\ [](Returned =>
            /\ ret[2] = "nil"
            /\ readDone["missing.txt"] = 0
            /\ \A w \in WordsOf(ret[1]) :
                  MapGet(ret[1], w) = ReadTotal({f \in FileIds : Kind(f) # "noopen"}, w))

\* A run over a missing file and two readable ones has returned their counts.
C6_Witness ==
    /\ Returned
    /\ files = <<"missing.txt", "a.txt", "b.txt">>
    /\ readDone["a.txt"] = 1
    /\ readDone["b.txt"] = 1
    /\ ret[1] # EmptyMap

\* C7: a reducer about to write finalResult holds the mutex, at most one
\* reducer is in the critical section, and finalResult changes only by a
\* step of the reducer that holds the mutex.
C7_MutualExclusion ==
    /\ [](/\ \A r \in Procs : rpc[r] = "add" => mutex = r
          /\ Cardinality({r \in Procs : rpc[r] = "add"}) <= 1)
    /\ [][finalResult' # finalResult =>
             (mutex \in Procs /\ rpc[mutex] = "add" /\ rpc'[mutex] # "add")]_vars

\* One reducer is in the critical section while the other waits for the mutex.
C7_Witness ==
    \E r1, r2 \in Procs : r1 # r2 /\ rpc[r1] = "add" /\ mutex = r1 /\ rpc[r2] = "lock"

\* C8: over a list of files that all open and read to the end, the map
\* processFiles returns is the map of one sequential pass over the list,
\* whatever the pool size and the interleaving.
C8_PoolOrderInvariance ==
    (Returned /\ \A i \in 1..Len(files) : Kind(files[i]) = "ok")
        => ret[1] = SequentialResult

\* Two workers and two reducers returned the counts of three readable files
\* of two different contents.
C8_Witness ==
    /\ Returned
    /\ maxWorkers = 2
    /\ files = <<"a.txt", "b.txt", "b.txt">>
    /\ ret[1] = SequentialResult

C10_AsStated ==
    (maxWorkers <= 0 /\ opc \notin {"main", "call"})
        => (Returned /\ ret[2] # "nil" /\ ~made)

\* Workers standing at the send of the partial result of f.
AtSend(f) == {w \in Procs : wpc[w] = "send" /\ wfn[w] = f}

\* C11: a worker whose read fails mid-stream stops reading that file, has
\* closed it, holds the counts of the chunks read before the failure, sends
\* them as one partial result and returns to the head of its loop; the
\* counts are in the map processFiles returns.
C11_MidReadFailure ==
    /\ [](\A w \in Procs :
            (wpc[w] = "send" /\ Kind(wfn[w]) = "readerr") =>
                /\ ~whandle[w]
                /\ \A x \in WordsOf(wres[w]) :
                      MapGet(wres[w], x) = Occurrences(wfn[w], FileSystem[wfn[w]].errAt, x))
    /\ [](\A f \in FileIds :
            Kind(f) = "readerr" => readDone[f] = sent[f] + Cardinality(AtSend(f)))
    /\ [][\A w \in Procs :
            (wpc[w] = "send" /\ Kind(wfn[w]) = "readerr" /\ wpc'[w] # "send") =>
                /\ wpc'[w] = "recv"
                /\ partialResults' = Append(partialResults, wres[w])]_vars
    /\ [](Returned =>
            \A f \in FileIds : Kind(f) = "readerr" =>
                /\ sent[f] = readDone[f]
                /\ \A x \in AllWords :
                      MapGet(ret[1], x) >= sent[f] * Occurrences(f, FileSystem[f].errAt, x))

\* The only worker sent the counts of the file cut short, went on to read
\* the next file, and both are in the returned map.
C11_Witness ==
    /\ Returned
    /\ maxWorkers = 1
    /\ files = <<"trunc.txt", "a.txt">>
    /\ sent["trunc.txt"] = 1
    /\ sent["a.txt"] = 1
    /\ ret[1] = (<<"a">> :> 2) @@ (<<"b">> :> 1)

\* Number of times x stands in the sequence s.
CountIn(s, x) == Cardinality({i \in 1..Len(s) : s[i] = x})

\* C12: every file name sent on workQueue is received by exactly one
\* worker: a name is never received twice, and when processFiles returns
\* every name of the list has been received, as often as it stands there.
C12_ExactlyOnceDispatch ==
    /\ \A f \in FileIds :
          taken[f] + CountIn(workQueue, f) = CountIn(SubSeq(files, 1, fed), f)
    /\ Returned => \A f \in FileIds : taken[f] = CountIn(files, f)

\* Counts of w a reducer has received and not yet added.
Pending(w) ==
    SumOver([r \in Procs |-> IF w \in rtodo[r] THEN rres[r][w] ELSE 0], Procs)

\* C13: every partial result sent is received by exactly one reducer, every
\* pair of it is added to finalResult exactly once before the reducer takes
\* its next item, and when processFiles returns every partial result sent
\* has been merged.
C13_ExactlyOnceMerge ==
    /\ recvd + Len(partialResults) = SumOver(sent, FileIds)
    /\ \A r \in Procs : rpc[r] \in {"unstarted", "recv", "exited"} => rtodo[r] = {}
    /\ \A w \in WordsOf(recvTotal) \cup DOMAIN finalResult :
          MapGet(finalResult, w) + Pending(w) = MapGet(recvTotal, w)
    /\ Returned => (recvd = SumOver(sent, FileIds) /\ ret[1] = recvTotal)

\* Two reducers merged three partial results, one of them with two pairs.
C13_Witness ==
    /\ Returned
    /\ maxWorkers = 2
    /\ recvd = 3
    /\ sent["b.txt"] >= 1
    /\ Cardinality(DOMAIN ret[1]) >= 2

\* C14: processFiles reads finalResult for its return only after every
\* reducer has ended, and the map is not written afterwards.
C14_FinalResultStable ==
    /\ opc \in {"return", "done"} =>
          /\ reducerWG = 0
          /\ mutex = 0
          /\ \A r \in Procs : rpc[r] \in {"unstarted", "exited"}
    /\ Returned => finalResult = ret[1]

\* processFiles returned a map two reducers had written, both ended.
C14_Witness ==
    /\ opc = "done"
    /\ maxWorkers = 2
    /\ \A r \in Procs : rpc[r] = "exited"
    /\ finalResult = ret[1]
    /\ finalResult # EmptyMap

\* The letter runs of the string s that no longer letter run contains.
MaximalRuns(s) ==
    {p \in (1..Len(s)) \X (1..Len(s)) :
        /\ p[1] <= p[2]
        /\ \A k \in p[1]..p[2] : IsLetter(s[k])
        /\ (p[1] = 1 \/ ~IsLetter(s[p[1] - 1]))
        /\ (p[2] = Len(s) \/ ~IsLetter(s[p[2] + 1]))}

\* The runes i..j of s, lower-cased.
Lowered(s, i, j) == [k \in 1..(j - i + 1) |-> ToLowerRune(s[i + k - 1])]

\* C15: the tokens counted for a chunk are exactly its maximal runs of
\* letters, lower-cased: every key is a non-empty string of lower-case
\* letters and its count is the number of maximal runs that spell it.
C15_Tokenization ==
    tokDone =>
        /\ \A w \in DOMAIN tokOut :
              /\ w # <<>>
              /\ \A i \in 1..Len(w) : IsLetter(w[i]) /\ ToLowerRune(w[i]) = w[i]
              /\ tokOut[w] =
                    Cardinality({p \in MaximalRuns(tokIn) : Lowered(tokIn, p[1], p[2]) = w})
        /\ \A p \in MaximalRuns(tokIn) : Lowered(tokIn, p[1], p[2]) \in DOMAIN tokOut

\* A chunk with an upper-case run and a lower-case run of the same word,
\* kept apart by a digit, was counted.
C15_Witness ==
    /\ tokDone
    /\ tokIn = <<"A", "1", "a">>
    /\ tokOut = (<<"a">> :> 2)

\* The counts of every chunk of every file, each chunk split on its own,
\* computed once.
ChunkCounts ==
    [f \in FileIds |->
        [i \in 1..Len(FileSystem[f].chunks) |-> CountChunk(EmptyMap, FileSystem[f].chunks[i])]]

\* Occurrences of x in the chunks 1..n of f, each chunk split on its own.
PerChunkSum(f, n, x) == SumOver([i \in 1..n |-> MapGet(ChunkCounts[f][i], x)], 1..n)

\* The counts of the chunks a read loop gets from f, split as one string,
\* computed once.
WholeCounts ==
    [f \in FileIds |-> CountChunk(EmptyMap, Concat(FileSystem[f].chunks, ChunksRead(f)))]

\* Some word of f is cut by the boundary of two chunks the read loop gets.
Straddles(f) ==
    \E i \in 1..(ChunksRead(f) - 1) :
        LET c == FileSystem[f].chunks
        IN  /\ c[i] # <<>> /\ c[i + 1] # <<>>
            /\ IsLetter(c[i][Len(c[i])]) /\ IsLetter(c[i + 1][1])

\* C16: the counts a worker holds for a file are the sum of the counts of
\* the chunks read, each split on its own; with a word cut by a chunk
\* boundary they differ from the counts of the file split as one string.
C16_ChunkLocalSplitting ==
    \A w \in Procs :
        wpc[w] \in {"read", "send"} =>
            /\ \A x \in WordsOf(wres[w]) :
                  MapGet(wres[w], x) = PerChunkSum(wfn[w], wpos[w], x)
            /\ (wpc[w] = "send" /\ Straddles(wfn[w])) =>
                  wres[w] # WholeCounts[wfn[w]]

\* A worker is about to send b.txt, whose bytes "aBa1" came as "aB" and
\* "a1": it counted "ab" and "a", not "aba".
C16_Witness ==
    \E w \in Procs :
        /\ wpc[w] = "send"
        /\ wfn[w] = "b.txt"
        /\ wres[w] = (<<"a", "b">> :> 1) @@ (<<"a">> :> 1)

\* The steps from one phase of main and processFiles to the next.
PhaseSteps ==
    {<<"main", "call">>, <<"main", "rejected">>, <<"call", "panicked">>,
     <<"call", "startReducers">>, <<"startReducers", "startWorkers">>,
     <<"startWorkers", "feed">>, <<"feed", "waitWorkers">>,
     <<"waitWorkers", "closeResults">>, <<"closeResults", "waitReducers">>,
     <<"waitReducers", "return">>, <<"return", "done">>}

\* C17: the phases follow one another in the one order setup, start of the
\* reducers, start of the workers, feed, close of workQueue, join of the
\* workers, close of partialResults, join of the reducers, return; every
\* reducer and every worker is launched before the first name is sent.
C17_OrchestratorOrder ==
    /\ [][opc' # opc => <<opc, opc'>> \in PhaseSteps]_vars
    /\ [](/\ opc = "startWorkers" => \A i \in 1..maxWorkers : rpc[i] # "unstarted"
          /\ fed > 0 => \A i \in 1..maxWorkers :
                            rpc[i] # "unstarted" /\ wpc[i] # "unstarted"
          /\ workClosed => fed = Len(files)
          /\ resultsClosed => (workClosed /\ workersWG = 0)
          /\ Returned => (resultsClosed /\ reducerWG = 0))

\* The first name has just been sent to a pool of two.
C17_Witness ==
    /\ opc = "feed"
    /\ fed = 1
    /\ maxWorkers = 2
    /\ \A i \in 1..2 : rpc[i] = "recv" /\ wpc[i] = "recv"

\* C18: when processFiles has returned both channels are closed and empty,
\* every worker and every reducer has ended, and every name was sent.
C18_Quiescence ==
    Returned =>
        /\ workClosed /\ workQueue = <<>>
        /\ resultsClosed /\ partialResults = <<>>
        /\ fed = Len(files)
        /\ \A i \in 1..maxWorkers : wpc[i] = "exited" /\ rpc[i] = "exited"

\* The reducers launched so far.
Launched ==
    IF opc \in {"main", "call", "rejected", "panicked"} THEN {}
    ELSE IF opc = "startReducers" THEN 1..started
    ELSE 1..maxWorkers

\* C19: a reducer has ended only if partialResults is closed and empty;
\* while it is open or holds an item, every reducer launched waits to
\* receive, waits for the mutex or holds it.
C19_ReducerLifetime ==
    /\ \A r \in Procs :
          rpc[r] = "exited" => (resultsClosed /\ partialResults = <<>>)
    /\ (~resultsClosed \/ partialResults # <<>>) =>
          \A r \in Launched : rpc[r] \in {"recv", "lock", "add"}

\* partialResults is closed and drained: one reducer has ended while the
\* other still merges its last item.
C19_Witness ==
    /\ resultsClosed
    /\ \E r1, r2 \in Procs : rpc[r1] = "exited" /\ rpc[r2] \in {"lock", "add"}

\* C20, as stated: when processFiles has returned, the number of partial
\* results merged is the number of files opened.
C20_AsStated == Returned => recvd = opened

\* Workers in the read loop of f.
AtRead(f) == {w \in Procs : wpc[w] = "read" /\ wfn[w] = f}

\* Every count stored in the map m is at least 1.
Positive(m) == \A k \in DOMAIN m : m[k] >= 1

\* C20, amended: every file a worker opens is in its read loop, has
\* panicked, or has ended its read loop; every read loop that ended has one
\* partial result sent or about to be sent, an empty map for a file without
\* words, and a file whose processing panics has none; when processFiles
\* has returned, the number of partial results merged is the number of
\* files opened less those that panicked; every count stored is at least 1.
C20_OneResultPerFile ==
    /\ opened = SumOver([f \in FileIds |-> IF Kind(f) = "noopen" THEN 0 ELSE taken[f]],
                        FileIds)
    /\ \A f \in FileIds :
          /\ readDone[f] = sent[f] + Cardinality(AtSend(f))
          /\ Kind(f) \in {"ok", "readerr"} =>
                taken[f] = readDone[f] + Cardinality(AtRead(f))
          /\ Kind(f) \in {"noopen", "fault"} => (readDone[f] = 0 /\ sent[f] = 0)
    /\ \A w \in Procs :
          /\ Positive(wres[w])
          /\ (wpc[w] = "send" /\ TokenStream(wfn[w], ChunksRead(wfn[w])) = <<>>) =>
                wres[w] = EmptyMap
    /\ \A r \in Procs : Positive(rres[r])
    /\ \A i \in 1..Len(partialResults) : Positive(partialResults[i])
    /\ Returned =>
          recvd = opened - SumOver([f \in FileIds |->
                                      IF Kind(f) = "fault" THEN taken[f] ELSE 0], FileIds)

\* A pool of two returned after one worker panicked on bad.txt and the
\* other sent an empty map for empty.txt and the counts of a.txt.
C20_Witness ==
    /\ Returned
    /\ maxWorkers = 2
    /\ files = <<"bad.txt", "empty.txt", "a.txt">>
    /\ opened = 3
    /\ sent["empty.txt"] = 1
    /\ sent["a.txt"] = 1
    /\ recvd = 2

\* C21: each channel, once made, holds at most maxWorkers items; workQueue
\* holds the names last sent, in the order sent, and every partial result
\* sent is in partialResults or was received; the feed loop and a worker at
\* its send cannot step while their channel is full.
C21_BoundedQueues ==
    /\ made => (Len(workQueue) <= maxWorkers /\ Len(partialResults) <= maxWorkers)
    /\ ~made => (workQueue = <<>> /\ partialResults = <<>>)
    /\ Len(workQueue) <= fed
    /\ workQueue = SubSeq(files, fed - Len(workQueue) + 1, fed)
    /\ SumOver(taken, FileIds) = fed - Len(workQueue)
    /\ SumOver(sent, FileIds) = recvd + Len(partialResults)
    /\ (opc = "feed" /\ fed < Len(files) /\ Len(workQueue) = maxWorkers) => ~ENABLED Feed
    /\ \A w \in Procs :
          (wpc[w] = "send" /\ Len(partialResults) = maxWorkers) => ~ENABLED WSend(w)

\* Both channels of a pool of one are full and the worker waits at its send.
C21_Witness ==
    /\ maxWorkers = 1
    /\ Len(workQueue) = 1
    /\ Len(partialResults) = 1
    /\ wpc[1] = "send"
    /\ ~resultsClosed

\* C22: a worker holds an open file only inside its read loop: the file is
\* closed when the worker is at its send, at the head of its range loop or
\* has ended, after end of file and after a read error alike; the files
\* held open are those opened less those whose read loop ended or
\* panicked; when processFiles has returned no worker holds an open file.
C22_HandleRelease ==
    /\ \A w \in Procs : whandle[w] <=> wpc[w] = "read"
    /\ Cardinality({w \in Procs : whandle[w]}) =
          opened - SumOver(readDone, FileIds)
                 - SumOver([f \in FileIds |->
                              IF Kind(f) = "fault"
                              THEN taken[f] - Cardinality(AtRead(f)) ELSE 0], FileIds)
    /\ Returned => \A w \in Procs : ~whandle[w]

\* The worker closed trunc.txt after its read error and sent its counts,
\* then closed b.txt at end of file and is about to send.
C22_Witness ==
    /\ maxWorkers = 1
    /\ sent["trunc.txt"] = 1
    /\ wpc[1] = "send"
    /\ wfn[1] = "b.txt"
    /\ ~whandle[1]

\* Counts of w in the partial results that sit in the channel.
InQueue(w) ==
    SumOver([i \in 1..Len(partialResults) |-> MapGet(partialResults[i], w)],
            1..Len(partialResults))

\* The files of which a partial result was sent.
SentFiles == {f \in FileIds : sent[f] > 0}

\* Counts of w in all the partial results sent so far.
SentTotal(w) ==
    SumOver([f \in SentFiles |-> sent[f] * Occurrences(f, ChunksRead(f), w)], SentFiles)

\* C23: at all times and for every word, the count in finalResult plus the
\* counts in the partial results that sit in the channel plus the counts
\* received by a reducer and not yet added make the counts of all partial
\* results sent so far; so the count in finalResult is never above that
\* sum, which is never above the total of one pass over the list, no file
\* has more partial results sent than the list names it, and the count
\* never goes down.
C23_InFlightAccounting ==
    /\ [](/\ \A w \in Procs :
                wpc[w] = "send" =>
                    \A x \in WordsOf(wres[w]) :
                        MapGet(wres[w], x) = Occurrences(wfn[w], ChunksRead(wfn[w]), x)
          /\ \A f \in FileIds : sent[f] <= CountIn(files, f)
          /\ \A x \in WordsOf(finalResult) :
                LET total == SentTotal(x)
                IN  /\ MapGet(finalResult, x) + InQueue(x) + Pending(x) = total
                    /\ MapGet(finalResult, x) <= total
                    /\ total <= ListTotal(x))
    /\ [][\A x \in DOMAIN finalResult :
             x \in DOMAIN finalResult' /\ finalResult'[x] >= finalResult[x]]_vars

\* One count of "a" is in finalResult, one sits in the channel and a reducer
\* is about to add a third.
C23_Witness ==
    /\ MapGet(finalResult, <<"a">>) >= 1
    /\ InQueue(<<"a">>) >= 1
    /\ Pending(<<"a">>) >= 1
    /\ \E r \in Procs : rpc[r] = "add" /\ rkey[r] = <<"a">>

\* C24: a reducer takes the mutex once for each pair of the partial result
\* it holds, adds the count of that pair once and frees the mutex; no
\* reducer holds the mutex while it waits to receive or after it has ended;
\* a reducer that waits for the mutex gets it.
C24_LockDiscipline ==
    /\ [](/\ mutex \in {0} \cup Procs
          /\ \A r \in Procs :
                /\ mutex = r <=> rpc[r] = "add"
                /\ rpc[r] = "lock" => rtodo[r] # {}
                /\ rpc[r] = "add" => rkey[r] \in rtodo[r])
    /\ [][\A r \in Procs :
             /\ (rpc[r] = "lock" /\ rpc'[r] # "lock") =>
                   /\ mutex = 0 /\ mutex' = r /\ rpc'[r] = "add"
                   /\ rtodo'[r] = rtodo[r] /\ finalResult' = finalResult
             /\ (rpc[r] = "add" /\ rpc'[r] # "add") =>
                   /\ mutex' = 0
                   /\ rtodo'[r] = rtodo[r] \ {rkey[r]}
                   /\ finalResult' = MapAdd(finalResult, rkey[r], rres[r][rkey[r]])
                   /\ rpc'[r] = IF rtodo'[r] = {} THEN "recv" ELSE "lock"
             /\ (rpc[r] = rpc'[r] /\ rpc[r] # "recv") =>
                   (rtodo'[r] = rtodo[r] /\ rkey'[r] = rkey[r])]_vars
    /\ \A r \in Procs : (rpc[r] = "lock") ~> (rpc[r] = "add")

\* A reducer that added the first pair of a partial result waits for the
\* mutex again while the other reducer holds it.
C24_Witness ==
    \E r1, r2 \in Procs :
        /\ rpc[r1] = "lock"
        /\ Cardinality(DOMAIN rres[r1]) = 2
        /\ Cardinality(rtodo[r1]) = 1
        /\ mutex = r2
        /\ rpc[r2] = "add"

\* C25: each channel is closed by processFiles alone, at one statement that
\* runs once: workQueue is closed exactly from the end of the feed loop on,
\* when every name was sent, partialResults exactly from the return of
\* workersWG.Wait() on, when every worker has ended; so nothing is sent on
\* a closed channel and no closed channel is closed again.
C25_CloseDiscipline ==
    /\ workClosed <=>
          opc \in {"waitWorkers", "closeResults", "waitReducers", "return", "done"}
    /\ resultsClosed <=> opc \in {"waitReducers", "return", "done"}
    /\ workClosed => fed = Len(files)
    /\ (ENABLED Feed) => ~workClosed
    /\ (ENABLED CloseWorkQueue) => ~workClosed
    /\ (ENABLED CloseResults) => ~resultsClosed
    /\ resultsClosed => \A w \in Procs : wpc[w] \in {"unstarted", "exited"}
    /\ \A w \in Procs : wpc[w] = "send" => ~resultsClosed

\* Both channels are closed after two workers sent three partial results.
C25_Witness ==
    /\ workClosed
    /\ resultsClosed
    /\ maxWorkers = 2
    /\ fed = 3
    /\ SumOver(sent, FileIds) = 3
    /\ \A w \in Procs : wpc[w] = "exited"

====
